---- MODULE Spec2Model ----
(***************************************************************************)
(* Model of kling-igor/gitops: the file status classifier (fileStatus),    *)
(* the status report (status) and the top-level scripts that sequence      *)
(* calls into the version-control engine (nodegit) and fs-extra.           *)
(*                                                                         *)
(* A JavaScript string is modelled as the sequence of its characters, so   *)
(* that 'AMI' is <<"A", "M", "I">> and `result += c` is Append(result, c). *)
(***************************************************************************)
EXTENDS Integers, Sequences, FiniteSets, TLC

\* ------------------------------------------------------------------ bounds
NumPaths == 2
MaxFiles == 3

\* ------------------------------------------------------------- descriptors
Paths == 1..NumPaths

FlagNames == <<"isNew", "isModified", "isRenamed", "isIgnored", "isDeleted", "isConflicted", "inIndex">>

\* A per-file descriptor of the engine: file.path() and the seven predicates
\* file.isNew() ... file.inIndex(), independent of each other.
Descriptors ==
  [path : Paths, isNew : BOOLEAN, isModified : BOOLEAN, isRenamed : BOOLEAN,
   isIgnored : BOOLEAN, isDeleted : BOOLEAN, isConflicted : BOOLEAN, inIndex : BOOLEAN]

\* The flags of a descriptor, without its path.
FlagsOf(file) == [n \in {FlagNames[i] : i \in 1..7} |-> file[n]]

VARIABLES
  lastFile,  \* the descriptor handed to the last fileStatus call
  result,    \* the string that call returned
  copy,      \* the copy of fileStatus the running script defines
  called,    \* TRUE once fileStatus has been called
  seen       \* history: an earlier call, as {[flags, result]} (at most one)

\* `let result = ''` kept across calls instead of made anew by each call.
EmptyResult_kept == result

\* `let result = ''` of fileStatus.
EmptyResult == << >>

\* ----------------------------------------------------- fileStatus, 4 copies
\* fileStatus with the isDeleted and isConflicted tests in the other order.
fileStatus_swapDC(file) ==
  LET r0 == EmptyResult
      r1 == IF file.isNew THEN Append(r0, "A") ELSE r0
      r2 == IF file.isModified THEN Append(r1, "M") ELSE r1
      r3 == IF file.isRenamed THEN Append(r2, "R") ELSE r2
      r4 == IF file.isIgnored THEN Append(r3, "?") ELSE r3
      r5 == IF file.isConflicted THEN Append(r4, "C") ELSE r4
      r6 == IF file.isDeleted THEN Append(r5, "D") ELSE r5
      r7 == IF file.inIndex THEN Append(r6, "I") ELSE r6
  IN  r7

\* fileStatus whose isDeleted branch appends 'M', as its isModified branch.
fileStatus_dupM(file) ==
  LET r0 == EmptyResult
      r1 == IF file.isNew THEN Append(r0, "A") ELSE r0
      r2 == IF file.isModified THEN Append(r1, "M") ELSE r1
      r3 == IF file.isRenamed THEN Append(r2, "R") ELSE r2
      r4 == IF file.isIgnored THEN Append(r3, "?") ELSE r3
      r5 == IF file.isDeleted THEN Append(r4, "M") ELSE r4
      r6 == IF file.isConflicted THEN Append(r5, "C") ELSE r5
      r7 == IF file.inIndex THEN Append(r6, "I") ELSE r6
  IN  r7

\* src/src/index.js:53-78
fileStatus(file) ==
  LET r0 == EmptyResult
      r1 == IF file.isNew THEN Append(r0, "A") ELSE r0
      r2 == IF file.isModified THEN Append(r1, "M") ELSE r1
      r3 == IF file.isRenamed THEN Append(r2, "R") ELSE r2
      r4 == IF file.isIgnored THEN Append(r3, "?") ELSE r3
      r5 == IF file.isDeleted THEN Append(r4, "D") ELSE r4
      r6 == IF file.isConflicted THEN Append(r5, "C") ELSE r5
      r7 == IF file.inIndex THEN Append(r6, "I") ELSE r6
  IN  r7

\* fileStatus without the inIndex test.
fileStatus_280_noIndex(file) ==
  LET r0 == EmptyResult
      r1 == IF file.isNew THEN Append(r0, "A") ELSE r0
      r2 == IF file.isModified THEN Append(r1, "M") ELSE r1
      r3 == IF file.isRenamed THEN Append(r2, "R") ELSE r2
      r4 == IF file.isIgnored THEN Append(r3, "?") ELSE r3
      r5 == IF file.isDeleted THEN Append(r4, "D") ELSE r4
      r6 == IF file.isConflicted THEN Append(r5, "C") ELSE r5
      r7 == r6
  IN  r7

\* src/src/index.js:280-305
fileStatus_280(file) ==
  LET r0 == EmptyResult
      r1 == IF file.isNew THEN Append(r0, "A") ELSE r0
      r2 == IF file.isModified THEN Append(r1, "M") ELSE r1
      r3 == IF file.isRenamed THEN Append(r2, "R") ELSE r2
      r4 == IF file.isIgnored THEN Append(r3, "?") ELSE r3
      r5 == IF file.isDeleted THEN Append(r4, "D") ELSE r4
      r6 == IF file.isConflicted THEN Append(r5, "C") ELSE r5
      r7 == IF file.inIndex THEN Append(r6, "I") ELSE r6
  IN  r7

\* fileStatus whose isIgnored branch appends 'I'.
fileStatus_447_ignoredI(file) ==
  LET r0 == EmptyResult
      r1 == IF file.isNew THEN Append(r0, "A") ELSE r0
      r2 == IF file.isModified THEN Append(r1, "M") ELSE r1
      r3 == IF file.isRenamed THEN Append(r2, "R") ELSE r2
      r4 == IF file.isIgnored THEN Append(r3, "I") ELSE r3
      r5 == IF file.isDeleted THEN Append(r4, "D") ELSE r4
      r6 == IF file.isConflicted THEN Append(r5, "C") ELSE r5
      r7 == IF file.inIndex THEN Append(r6, "I") ELSE r6
  IN  r7

\* fileStatus that tests isRenamed before isModified.
fileStatus_447_RM(file) ==
  LET r0 == EmptyResult
      r1 == IF file.isNew THEN Append(r0, "A") ELSE r0
      r2 == IF file.isRenamed THEN Append(r1, "R") ELSE r1
      r3 == IF file.isModified THEN Append(r2, "M") ELSE r2
      r4 == IF file.isIgnored THEN Append(r3, "?") ELSE r3
      r5 == IF file.isDeleted THEN Append(r4, "D") ELSE r4
      r6 == IF file.isConflicted THEN Append(r5, "C") ELSE r5
      r7 == IF file.inIndex THEN Append(r6, "I") ELSE r6
  IN  r7

\* src/src/index.js:447-472
fileStatus_447(file) ==
  LET r0 == EmptyResult
      r1 == IF file.isNew THEN Append(r0, "A") ELSE r0
      r2 == IF file.isModified THEN Append(r1, "M") ELSE r1
      r3 == IF file.isRenamed THEN Append(r2, "R") ELSE r2
      r4 == IF file.isIgnored THEN Append(r3, "?") ELSE r3
      r5 == IF file.isDeleted THEN Append(r4, "D") ELSE r4
      r6 == IF file.isConflicted THEN Append(r5, "C") ELSE r5
      r7 == IF file.inIndex THEN Append(r6, "I") ELSE r6
  IN  r7

\* What a call leaves behind when it throws instead of returning.
TypeError == <<"TypeError">>

\* fileStatus that calls a predicate the descriptor does not have on
\* conflicted files, and throws there.
fileStatus_part000_throws(file) ==
  IF file.isConflicted THEN TypeError
  ELSE
    LET r0 == EmptyResult
        r1 == IF file.isNew THEN Append(r0, "A") ELSE r0
        r2 == IF file.isModified THEN Append(r1, "M") ELSE r1
        r3 == IF file.isRenamed THEN Append(r2, "R") ELSE r2
        r4 == IF file.isIgnored THEN Append(r3, "?") ELSE r3
        r5 == IF file.isDeleted THEN Append(r4, "D") ELSE r4
        r6 == IF file.isConflicted THEN Append(r5, "C") ELSE r5
        r7 == IF file.inIndex THEN Append(r6, "I") ELSE r6
    IN  r7

\* src/unnamed/part_000:53-78
fileStatus_part000(file) ==
  LET r0 == EmptyResult
      r1 == IF file.isNew THEN Append(r0, "A") ELSE r0
      r2 == IF file.isModified THEN Append(r1, "M") ELSE r1
      r3 == IF file.isRenamed THEN Append(r2, "R") ELSE r2
      r4 == IF file.isIgnored THEN Append(r3, "?") ELSE r3
      r5 == IF file.isDeleted THEN Append(r4, "D") ELSE r4
      r6 == IF file.isConflicted THEN Append(r5, "C") ELSE r5
      r7 == IF file.inIndex THEN Append(r6, "I") ELSE r6
  IN  r7

\* The copies of the classifier, named by the place of their definition.
Copies == {"index.js:53", "index.js:280", "index.js:447", "part_000:53"}

\* The classifier a given copy of the script binds to the name fileStatus.
fileStatusOf(c, file) ==
  CASE c = "index.js:53"  -> fileStatus(file)
    [] c = "index.js:280" -> fileStatus_280(file)
    [] c = "index.js:447" -> fileStatus_447(file)
    [] c = "part_000:53"  -> fileStatus_part000(file)

\* The descriptors handed to the classifier on its own: every one of the 2^7
\* flag combinations (fileStatus never calls file.path()).
ClassifierFiles == {d \in Descriptors : d.path = 1}

classifierVars == <<lastFile, result, copy, called, seen>>

ClassifierInit ==
  /\ lastFile \in ClassifierFiles
  /\ result = << >>
  /\ copy \in Copies
  /\ called = FALSE
  /\ seen = {}

\* One call fileStatus(d).  The call reads the descriptor, builds a fresh
\* local result and returns it.  With keep, the history variable seen
\* remembers the call made before this one (one call of the run, once), to
\* compare it with every later call.
fileStatusCall(d, keep) ==
  /\ lastFile' = d
  /\ result' = fileStatusOf(copy, d)
  /\ called' = TRUE
  /\ seen' = IF keep /\ called /\ seen = {}
               THEN {[flags |-> FlagsOf(lastFile), result |-> result]}
               ELSE seen
  /\ UNCHANGED copy

\* ------------------------------------------------------------------ status
\* The flag combinations the working-tree scan hands to status(repo): nothing
\* set, one flag, isNew+isModified+inIndex, and all seven.
ScanFlags ==
  { <<FALSE, FALSE, FALSE, FALSE, FALSE, FALSE, FALSE>>,
    <<FALSE, TRUE,  FALSE, FALSE, FALSE, FALSE, FALSE>>,
    <<TRUE,  TRUE,  FALSE, FALSE, FALSE, FALSE, TRUE>>,
    <<TRUE,  TRUE,  TRUE,  TRUE,  TRUE,  TRUE,  TRUE>> }

ScanFiles ==
  { [path |-> p, isNew |-> f[1], isModified |-> f[2], isRenamed |-> f[3],
     isIgnored |-> f[4], isDeleted |-> f[5], isConflicted |-> f[6], inIndex |-> f[7]]
    : p \in Paths, f \in ScanFlags }

\* What repo.getStatus() can resolve with: any list of descriptors, in the
\* engine's order, the same path or flags possibly more than once.
ScanResults == UNION { [1..n -> ScanFiles] : n \in 0..MaxFiles }

\* status that returns the entries in the opposite order.
status_reversed(c, statuses) ==
  [i \in 1..Len(statuses) |->
     [path |-> statuses[Len(statuses) + 1 - i].path,
      status |-> fileStatusOf(c, statuses[Len(statuses) + 1 - i])]]

\* `statuses.map(file => ({ path: file.path(), status: fileStatus(file) }))`
\* of the status defined next to copy c of fileStatus.
status(c, statuses) ==
  [i \in 1..Len(statuses) |->
     [path |-> statuses[i].path, status |-> fileStatusOf(c, statuses[i])]]

VARIABLES
  repoStatus,  \* the list repo.getStatus() resolves with
  statusPc,    \* "idle", "awaiting" (at the await), "returned", "rejected"
  entries      \* the array status(repo) resolved with

statusVars == <<repoStatus, statusPc, entries>>

StatusInit ==
  /\ repoStatus \in ScanResults
  /\ statusPc = "idle"
  /\ entries = << >>

StatusIdle ==
  /\ repoStatus = << >>
  /\ statusPc = "idle"
  /\ entries = << >>

\* status(repo) is called and suspends at `await repo.getStatus()`.
status_call ==
  /\ statusPc = "idle"
  /\ statusPc' = "awaiting"
  /\ UNCHANGED <<repoStatus, entries>>

\* getStatus resolves: status resumes, maps the list and returns.
status_return ==
  /\ statusPc = "awaiting"
  /\ entries' = status(copy, repoStatus)
  /\ statusPc' = "returned"
  /\ UNCHANGED repoStatus

\* getStatus rejects: the await throws and status rejects with that error.
status_reject ==
  /\ statusPc = "awaiting"
  /\ statusPc' = "rejected"
  /\ UNCHANGED <<repoStatus, entries>>

\* ----------------------------------------------------------------- scripts
\* The top-level async functions that run when a file is loaded, named by
\* the place of their definition.
Scripts == {"part_000:85", "index.js:220", "index.js:384", "index.js:558"}

\* The operations a script starts, in program order.  Every one is awaited,
\* except writeFile, whose promise is dropped.
Steps(s) ==
  CASE s = "part_000:85" ->
         <<"createRepository", "ensureDir", "writeFile", "refreshIndex",
           "addToIndex", "writeIndex", "status", "createCommit", "nameToId">>
    [] s = "index.js:220" ->
         <<"cloneRepo", "checkout", "getCurrentBranch", "getBranchCommit",
           "createBranch">>
    [] s = "index.js:384" -> <<"cloneRepoAndCheckout">>
    [] s = "index.js:558" -> <<"cloneRepo", "checkout", "getCurrentBranch">>

\* TRUE for the operations the script waits for before it goes on.
Awaited(op) == op # "writeFile"

VARIABLES
  script,    \* the script that runs
  pc,        \* index in Steps(script) of the operation to start or to settle
  phase,     \* "ready" (about to start pc) or "awaiting" (suspended on pc)
  proc,      \* "running", "done" (try block finished), "caught" (catch block
             \* ran), "crashed" (the runtime ended the process)
  writeOp,   \* the dropped writeFile promise: "none", "pending" (started),
             \* "opened" (file created or truncated), "done", "failed"
  workfile,  \* src/index.js in the working directory: "absent", "empty",
             \* "complete"
  staged,    \* what addByPath put into the index: "none", "empty", "complete"
  logged,    \* the errors the catch block passed to console.error
  unhandled, \* rejections that no handler received
  trace      \* history: the events so far, [ev, op]

scriptVars ==
  <<script, pc, phase, proc, writeOp, workfile, staged, logged, unhandled, trace>>

Event(e, op) == [ev |-> e, op |-> op]

CurrentOp == Steps(script)[pc]

ScriptInit ==
  /\ script \in Scripts
  /\ pc = 1
  /\ phase = "ready"
  /\ proc = "running"
  /\ writeOp = "none"
  /\ workfile \in {"absent", "complete"}
  /\ staged = "none"
  /\ logged = << >>
  /\ unhandled = {}
  /\ trace = << >>

ScriptIdle ==
  /\ script = "part_000:85"
  /\ pc = 1
  /\ phase = "ready"
  /\ proc = "running"
  /\ writeOp = "none"
  /\ workfile = "absent"
  /\ staged = "none"
  /\ logged = << >>
  /\ unhandled = {}
  /\ trace = << >>

\* The script goes on to the operation after pc, or leaves the try block.
Advance ==
  /\ pc' = IF pc < Len(Steps(script)) THEN pc + 1 ELSE pc
  /\ proc' = IF pc < Len(Steps(script)) THEN "running" ELSE "done"
  /\ phase' = "ready"

\* `await op(...)`: the operation is started and the script suspends.
AwaitCall ==
  /\ proc = "running" /\ phase = "ready"
  /\ Awaited(CurrentOp)
  /\ phase' = "awaiting"
  /\ trace' = Append(trace, Event("call", CurrentOp))
  /\ UNCHANGED <<script, pc, proc, writeOp, workfile, staged, logged, unhandled>>

\* `writeFile(...)` without await: the write is started, its promise is
\* dropped and the script goes on at once.
WriteFileCall ==
  /\ proc = "running" /\ phase = "ready"
  /\ ~Awaited(CurrentOp)
  /\ writeOp' = "pending"
  /\ trace' = Append(trace, Event("call", CurrentOp))
  /\ Advance
  /\ UNCHANGED <<script, workfile, staged, logged, unhandled>>

\* The awaited operation resolves and the script resumes after the await.
\* index.addByPath reads the file from the working directory: it stages what
\* is there, and cannot succeed when the file is absent.
AwaitResolve ==
  /\ proc = "running" /\ phase = "awaiting"
  /\ CurrentOp = "addToIndex" => workfile # "absent"
  /\ staged' = IF CurrentOp = "addToIndex" THEN workfile ELSE staged
  /\ trace' = Append(trace, Event("ok", CurrentOp))
  /\ Advance
  /\ UNCHANGED <<script, writeOp, workfile, logged, unhandled>>

\* The awaited operation rejects: the await throws, control passes to the
\* catch block, which logs the error, and the script ends.
AwaitReject ==
  /\ proc = "running" /\ phase = "awaiting"
  /\ logged' = Append(logged, CurrentOp)
  /\ trace' = trace \o <<Event("fail", CurrentOp), Event("log", CurrentOp)>>
  /\ proc' = "caught"
  /\ phase' = "ready"
  /\ UNCHANGED <<script, pc, writeOp, workfile, staged, unhandled>>

\* fs writeFile opens the file with flag 'w': created, or truncated.
WriteFileOpen ==
  /\ proc # "crashed"
  /\ writeOp = "pending"
  /\ writeOp' = "opened"
  /\ workfile' = "empty"
  /\ UNCHANGED <<script, pc, phase, proc, staged, logged, unhandled, trace>>

\* The data is written and the file closed: the dropped promise resolves.
WriteFileDone ==
  /\ proc # "crashed"
  /\ writeOp = "opened"
  /\ writeOp' = "done"
  /\ workfile' = "complete"
  /\ trace' = Append(trace, Event("ok", "writeFile"))
  /\ UNCHANGED <<script, pc, phase, proc, staged, logged, unhandled>>

\* The open or the write fails: the dropped promise rejects with no handler.
\* The runtime reports an unhandled rejection and, depending on its version
\* and flags, goes on or ends the process.
WriteFileFail ==
  /\ proc # "crashed"
  /\ writeOp \in {"pending", "opened"}
  /\ writeOp' = "failed"
  /\ unhandled' = unhandled \cup {"writeFile"}
  /\ trace' = Append(trace, Event("fail", "writeFile"))
  /\ \E crash \in BOOLEAN : proc' = IF crash THEN "crashed" ELSE proc
  /\ UNCHANGED <<script, pc, phase, workfile, staged, logged>>

vars ==
  <<lastFile, result, copy, called, seen, repoStatus, statusPc, entries,
    script, pc, phase, proc, writeOp, workfile, staged, logged, unhandled, trace>>

ClassifierIdle ==
  /\ lastFile = [path |-> 1, isNew |-> FALSE, isModified |-> FALSE, isRenamed |-> FALSE,
                 isIgnored |-> FALSE, isDeleted |-> FALSE, isConflicted |-> FALSE,
                 inIndex |-> FALSE]
  /\ result = << >>
  /\ copy \in Copies
  /\ called = FALSE
  /\ seen = {}

\* Classifier calls on every flag combination.
Init == ClassifierInit /\ StatusIdle /\ ScriptIdle
Next == \E d \in ClassifierFiles : fileStatusCall(d, FALSE) /\ UNCHANGED <<statusVars, scriptVars>>
Spec == Init /\ [][Next]_vars

\* Sequences of classifier calls, with the history of an earlier call.
NextCalls ==
  \E d \in ClassifierFiles :
    \E keep \in IF called /\ seen = {} THEN BOOLEAN ELSE {FALSE} :
      fileStatusCall(d, keep) /\ UNCHANGED <<statusVars, scriptVars>>
SpecCalls == Init /\ [][NextCalls]_vars

\* status(repo) on every scan result.
InitStatus == ClassifierIdle /\ StatusInit /\ ScriptIdle
NextStatus ==
  \/ status_call /\ UNCHANGED <<classifierVars, scriptVars>>
  \/ status_return /\ UNCHANGED <<classifierVars, scriptVars>>
  \/ status_reject /\ UNCHANGED <<classifierVars, scriptVars>>
SpecStatus == InitStatus /\ [][NextStatus]_vars

\* The scripts, with every outcome of every operation they start.
InitScript == ClassifierIdle /\ copy = "part_000:53" /\ StatusIdle /\ ScriptInit
NextScript ==
  \/ AwaitCall /\ UNCHANGED <<classifierVars, statusVars>>
  \/ WriteFileCall /\ UNCHANGED <<classifierVars, statusVars>>
  \/ AwaitResolve /\ UNCHANGED <<classifierVars, statusVars>>
  \/ AwaitReject /\ UNCHANGED <<classifierVars, statusVars>>
  \/ WriteFileOpen /\ UNCHANGED <<classifierVars, statusVars>>
  \/ WriteFileDone /\ UNCHANGED <<classifierVars, statusVars>>
  \/ WriteFileFail /\ UNCHANGED <<classifierVars, statusVars>>
SpecScript == InitScript /\ [][NextScript]_vars

\* ------------------------------------------------------------- properties
\* The status characters, in the order of the specification.
Codes == <<"A", "M", "R", "?", "D", "C", "I">>

CodeSet == {Codes[i] : i \in 1..7}

\* Position of a status character in Codes.
CodePos(c) == CHOOSE i \in 1..7 : Codes[i] = c

\* The characters of the flags of a descriptor that are true, in Codes order.
FlagCodes(f) ==
  LET IsSet(c) == f[FlagNames[CodePos(c)]]
  IN  SelectSeq(Codes, IsSet)

\* Number of flags of a descriptor that are true.
NumTrue(f) == Cardinality({i \in 1..7 : f[FlagNames[i]]})

\* C1: for every flag combination fileStatus returns exactly the characters
\* of the true flags, in the fixed order A, M, R, ?, D, C, I; so
\* isNew+isModified+inIndex gives "AMI" and all seven flags give "AMR?DCI".
C1_FixedOrderConcatenation ==
  called =>
    /\ result = FlagCodes(lastFile)
    /\ (lastFile.isNew /\ lastFile.isModified /\ lastFile.inIndex /\ NumTrue(lastFile) = 3)
         => result = <<"A", "M", "I">>
    /\ NumTrue(lastFile) = 7 => result = <<"A", "M", "R", "?", "D", "C", "I">>

C1_Witness ==
  /\ called
  /\ lastFile.isNew /\ lastFile.isModified /\ lastFile.inIndex /\ NumTrue(lastFile) = 3
  /\ result = <<"A", "M", "I">>

\* C3: when exactly one flag is true, fileStatus returns the string of
\* length 1 that holds the character of that flag.
C3_SingleFlagSingleCharacter ==
  (called /\ NumTrue(lastFile) = 1) =>
    \A i \in 1..7 : lastFile[FlagNames[i]] => result = <<Codes[i]>>

C3_Witness ==
  /\ called
  /\ NumTrue(lastFile) = 1 /\ lastFile.isIgnored
  /\ result = <<"?">>

\* C4: fileStatus returns the empty string when all seven flags are false,
\* and for no other flag combination.
C4_EmptyIffNoFlag ==
  called => (result = << >> <=> NumTrue(lastFile) = 0)

C4_Witness ==
  /\ called
  /\ NumTrue(lastFile) = 0
  /\ result = << >>

\* TRUE for a string of status characters; FALSE for what a call that threw
\* instead of returning leaves behind.
IsString(r) == \A i \in DOMAIN r : r[i] \in CodeSet

\* C5: fileStatus never ends in an error: what a call returned is a string,
\* and every one of the 2^7 flag combinations leads to a string.
C5_TotalNoError ==
  called =>
    /\ IsString(result)
    /\ \A d \in ClassifierFiles : IsString(fileStatusOf(copy, d))

C5_Witness ==
  /\ called
  /\ lastFile.isConflicted /\ lastFile.isRenamed
  /\ IsString(result) /\ Len(result) >= 2

C7_CopiesAgree ==
  called => \A c \in Copies : fileStatusOf(c, lastFile) = result

C7_Witness ==
  /\ called
  /\ copy = "part_000:53"
  /\ result = <<"M", "D">>

\* C10: fileStatus is injective on flag combinations, and every status string
\* has at most 7 characters, no character twice, and is a subsequence of
\* "AMR?DCI".
C10_InjectiveSubsequence ==
  called =>
    /\ \A d \in ClassifierFiles :
         fileStatusOf(copy, d) = result => FlagsOf(d) = FlagsOf(lastFile)
    /\ Len(result) <= 7
    /\ \A i \in 1..Len(result) : result[i] \in CodeSet
    /\ \A i, j \in 1..Len(result) :
         i < j => CodePos(result[i]) < CodePos(result[j])

C10_Witness ==
  /\ called
  /\ result = <<"R", "C">>
  /\ lastFile.isRenamed /\ lastFile.isConflicted /\ NumTrue(lastFile) = 2

\* C2: status(repo) returns as many entries as getStatus enumerated, and the
\* i-th entry holds the path and the status string of the i-th descriptor:
\* nothing is re-sorted, dropped or duplicated.
C2_StatusPreservesOrder ==
  statusPc = "returned" =>
    /\ Len(entries) = Len(repoStatus)
    /\ \A i \in 1..Len(repoStatus) :
         /\ entries[i].path = repoStatus[i].path
         /\ entries[i].status = fileStatusOf(copy, repoStatus[i])
         /\ entries[i].status = FlagCodes(repoStatus[i])

C2_Witness ==
  /\ statusPc = "returned"
  /\ Len(entries) = 3
  /\ entries[1].path = 2 /\ entries[2].path = 1 /\ entries[3].path = 2
  /\ entries[1].status = <<"A", "M", "I">>
  /\ entries[2].status = << >>
  /\ entries[3].status = <<"M">>

\* C8: every failure of an operation a script started reaches the script's
\* catch block, which logs it, and no operation is started after a failure.
C8_FailuresReachHandler ==
  \A i \in DOMAIN trace :
    trace[i].ev = "fail" =>
      /\ i < Len(trace)
      /\ trace[i + 1] = Event("log", trace[i].op)
      /\ \A j \in DOMAIN trace : j > i => trace[j].ev # "call"

\* C9: the write of src/index.js has completed before addToIndex stages the
\* path, and so before writeIndex and createCommit.
C9_WriteBeforeStage ==
  \A i \in DOMAIN trace :
    trace[i] = Event("ok", "addToIndex") =>
      \E j \in DOMAIN trace : j < i /\ trace[j] = Event("ok", "writeFile")
====
